---- MODULE Spec2Model ----
(***************************************************************************)
(* blocksim: the node communication core (models/node.py) and the node     *)
(* population factory (node_factory.py).                                   *)
(*                                                                         *)
(* The specifications share the variables:                                 *)
(*   SpecMark    - add_neighbors, _mark_block, _mark_transaction and the   *)
(*                 chain head of a node moving on;                         *)
(*   Spec        - add_neighbors, send and listening tasks run by the      *)
(*                 virtual-time scheduler;                                 *)
(*   SpecFactory - NodeFactory.create_nodes on bounded inputs;             *)
(*   SpecRelay   - marks and send tasks together;                          *)
(*   SpecFill    - pairwise distinct hashes marked for one fresh neighbor; *)
(*   SpecListen  - the tasks of Spec on a node with two neighbors;         *)
(*   SpecFair    - the tasks of Spec under a scheduler that keeps running; *)
(*   SpecFrame   - the calls of SpecMark with fewer hashes.                *)
(* The history variable marked is written under SpecFill only.             *)
(***************************************************************************)
EXTENDS Integers, Sequences, FiniteSets, TLC

VARIABLES
    neighbors,   \* Node.neighbors of every node: address -> neighbor dict
    conns,       \* every Connection object created so far, by identity
    head,        \* node.chain.head of every node
    result,      \* what the last direct call on a node raised, if anything
    now,         \* env.now, the virtual clock
    procs,       \* the tasks handed to the scheduler, by process id
    nextEid,     \* the id the scheduler gives the next event it registers
    world,       \* NodeFactory._world: blockchain selector, known locations
    request,     \* the arguments of create_nodes: miners, non_miners
    network,     \* the nodes registered in NodeFactory._network, in order
    wiring,      \* the neighbor addresses each created node was connected to
    outcome,     \* how create_nodes ended
    marked       \* history: the hashes marked for a neighbor since it was added

vars == << neighbors, conns, head, result, now, procs, nextEid,
           world, request, network, wiring, outcome, marked >>

coreVars == << neighbors, conns, head, result, now, procs, nextEid >>
factoryVars == << world, request, network, wiring, outcome >>

(***************************************************************************)
(* Bounds of the model.                                                    *)
(***************************************************************************)
\* The known-set limits, scaled down from 30000 and 1024 so that TLC fills a set.
MAX_KNOWN_TXS == 3
MAX_KNOWN_BLOCKS == 2
\* Connection objects created in one run.
MaxConns == 2
\* Times the chain head of a node moves on.
MaxHeight == 1
\* Tasks handed to the scheduler in one run.
MaxProcs == 2
\* env.timeout(3): the handshake delay of send.
HANDSHAKE == 3
\* The largest how_many of a location in miners or non_miners.
MaxHowMany == 2

Nodes == {"a", "b"}
BlockHashes == {"", "b1", "b2"}
TxHashes == {"", "t1", "t2", "t3"}
\* The nodes whose _mark_block and _mark_transaction are called.
MarkNodes == {"a"}

Msgs == {"tx1", "tx2"}
\* upload_rate and download_rate arguments, in virtual-time units.
UploadRates == {1, 5}
DownloadRates == {2}
\* The nodes whose send is called.
Senders == {"a"}

None == "None"

\* Node.location of the nodes of the model.
Location(n) == IF n = "a" THEN "Ohio" ELSE "Tokyo"

(***************************************************************************)
(* models/node.py: neighbor management                                     *)
(***************************************************************************)
\* Connection(env, origin, destination): a new object with an empty queue.
Connection(origin, destination) ==
    [origin_node |-> origin, destination_node |-> destination, store |-> << >>]

\* The dict add_neighbors installs for one node.
NewNeighbor(connection, node) ==
    [connection  |-> connection,
     head        |-> head[node],
     location    |-> Location(node),
     address     |-> node,
     knownTxs    |-> {""},
     knownBlocks |-> {""}]

\* add_neighbors(node) on self, for one node of *nodes.
AddNeighbors(self, node) ==
    /\ Len(conns) < MaxConns
    /\ LET connection == Len(conns) + 1
       IN  /\ conns' = Append(conns, Connection(self, node))
           /\ neighbors' = [neighbors EXCEPT ![self] =
                  (node :> NewNeighbor(connection, node)) @@ neighbors[self]]
    /\ result' = None
    /\ UNCHANGED << head, now, procs, nextEid >>
    /\ UNCHANGED factoryVars

\* _update_neighbors gone wrong: the map is replaced by the one entry.
UpdateNeighborsOnly(nbrs, new_neighbor) ==
    (new_neighbor.address :> new_neighbor)

\* _update_neighbors: the dict is stored under its own 'address'.
UpdateNeighbors(nbrs, new_neighbor) ==
    (new_neighbor.address :> new_neighbor) @@ nbrs

\* _get_neighbor gone wrong: a missing neighbor gets a default dict, no error.
GetNeighborDefault(nbrs, neighbor_address) ==
    IF neighbor_address \in DOMAIN nbrs
    THEN [raised |-> None, value |-> nbrs[neighbor_address]]
    ELSE [raised |-> None,
          value |-> [connection |-> 0, head |-> 0, location |-> None,
                     address |-> neighbor_address, knownTxs |-> {}, knownBlocks |-> {}]]

\* _get_neighbor: the dict found, or the RuntimeError raised.
GetNeighbor(nbrs, neighbor_address) ==
    IF neighbor_address \in DOMAIN nbrs
    THEN [raised |-> None, value |-> nbrs[neighbor_address]]
    ELSE [raised |-> "RuntimeError", value |-> None]

\* The eviction loop gone wrong: a full set is emptied, known.clear().
PopWhileFullClear(known, limit) ==
    IF Cardinality(known) >= limit
    THEN {{}}
    ELSE {known}

\* The eviction loop gone wrong: always the same member is evicted, as from a
\* queue, where set.pop() may take any.
PopWhileFullFixed(known, limit) ==
    IF Cardinality(known) >= limit
    THEN {CHOOSE s \in SUBSET known : Cardinality(s) = limit - 1}
    ELSE {known}

\* The eviction loop gone wrong: it starts one below the limit.
PopWhileNearFull(known, limit) ==
    IF Cardinality(known) >= limit - 1
    THEN {s \in SUBSET known : Cardinality(s) = limit - 2}
    ELSE {known}

\* The eviction loop gone wrong: > where the code has >=.
PopWhileOver(known, limit) ==
    IF Cardinality(known) > limit
    THEN {s \in SUBSET known : Cardinality(s) = limit}
    ELSE {known}

\* while len(known) >= limit: known.pop()  -- every set the loop can leave.
PopWhileFull(known, limit) ==
    IF Cardinality(known) >= limit
    THEN {s \in SUBSET known : Cardinality(s) = limit - 1}
    ELSE {known}

\* _mark_block(block_hash, neighbor_address) on self.
MarkBlock(self, block_hash, neighbor_address) ==
    LET found == GetNeighbor(neighbors[self], neighbor_address)
        neighbor == found.value
    IN  /\ UNCHANGED << conns, head, now, procs, nextEid >>
        /\ UNCHANGED factoryVars
        /\ IF found.raised # None
           THEN /\ result' = found.raised
                /\ UNCHANGED neighbors
           ELSE /\ \E known_blocks \in PopWhileFull(neighbor.knownBlocks, MAX_KNOWN_BLOCKS) :
                     neighbors' = [neighbors EXCEPT ![self] =
                         UpdateNeighbors(neighbors[self],
                             [neighbor EXCEPT !.knownBlocks = known_blocks \cup {block_hash}])]
                /\ result' = None

\* _mark_transaction(tx_hash, neighbor_address) on self.
MarkTransaction(self, tx_hash, neighbor_address) ==
    LET found == GetNeighbor(neighbors[self], neighbor_address)
        neighbor == found.value
    IN  /\ UNCHANGED << conns, head, now, procs, nextEid >>
        /\ UNCHANGED factoryVars
        /\ IF found.raised # None
           THEN /\ result' = found.raised
                /\ UNCHANGED neighbors
           ELSE /\ \E known_txs \in PopWhileFull(neighbor.knownTxs, MAX_KNOWN_TXS) :
                     neighbors' = [neighbors EXCEPT ![self] =
                         UpdateNeighbors(neighbors[self],
                             [neighbor EXCEPT !.knownTxs = known_txs \cup {tx_hash}])]
                /\ result' = None

\* The chain of a node gets a new head (the chain model is outside the core).
NewHead(node) ==
    /\ head[node] < MaxHeight
    /\ head' = [head EXCEPT ![node] = @ + 1]
    /\ result' = None
    /\ UNCHANGED << neighbors, conns, now, procs, nextEid >>
    /\ UNCHANGED factoryVars

(***************************************************************************)
(* The virtual-time scheduler: each task has at most one pending event,    *)
(* kept in its record as wake = [time, eid]; the event with the earliest   *)
(* time runs next, ties in the order the events were registered.           *)
(***************************************************************************)
NoWake == [time |-> -1, eid |-> -1]

Pending(p) == procs[p].wake # NoWake

Earlier(w1, w2) == w1.time < w2.time \/ (w1.time = w2.time /\ w1.eid < w2.eid)

\* p holds the event the scheduler pops next.
IsNext(p) ==
    /\ Pending(p)
    /\ \A q \in DOMAIN procs : (q # p /\ Pending(q)) => Earlier(procs[p].wake, procs[q].wake)

\* env.timeout(delay) yielded at time t: the event registered for the task.
Timeout(t, delay) == [time |-> t + delay, eid |-> nextEid]

\* env.process(generator): a new task with an initialisation event at now.
Process(kind, self, destination_address, rate, msg) ==
    [kind |-> kind, node |-> self, pc |-> "scheduled", t0 |-> now,
     wake |-> Timeout(now, 0), dest |-> destination_address, rate |-> rate,
     msg |-> msg, connection |-> 0, envelope |-> << >>, raised |-> None, ended |-> -1]

\* A send(destination_address, upload_rate, msg) task of self is scheduled.
StartSend(self, destination_address, upload_rate, msg) ==
    /\ Len(procs) < MaxProcs
    /\ procs' = Append(procs, Process("send", self, destination_address, upload_rate, msg))
    /\ nextEid' = nextEid + 1
    /\ UNCHANGED << neighbors, conns, head, result, now >>
    /\ UNCHANGED factoryVars

\* A listening(download_rate) task of self is scheduled.
StartListening(self, download_rate) ==
    /\ Len(procs) < MaxProcs
    /\ procs' = Append(procs, Process("listening", self, None, download_rate, None))
    /\ nextEid' = nextEid + 1
    /\ UNCHANGED << neighbors, conns, head, result, now >>
    /\ UNCHANGED factoryVars

\* Connection.put(envelope): appended to the queue, never refused.
Put(connection, envelope) == [connection EXCEPT !.store = Append(@, envelope)]

(***************************************************************************)
(* models/node.py: send, one action per stretch between two yields         *)
(***************************************************************************)
\* Envelope(msg, self.env.now, connection.destination_node, connection.origin_node)
Envelope(msg, timestamp, destination, origin) ==
    [msg |-> msg, timestamp |-> timestamp, destination |-> destination, origin |-> origin]

\* send gone wrong: the handshake timeout is yielded before the neighbor lookup.
SendLookupAfterHandshake(p) ==
    /\ procs[p].kind = "send" /\ procs[p].pc = "scheduled"
    /\ IsNext(p)
    /\ now' = procs[p].wake.time
    /\ procs' = [procs EXCEPT ![p].pc = "handshaking",
                              ![p].wake = Timeout(now', HANDSHAKE)]
    /\ nextEid' = nextEid + 1
    /\ UNCHANGED << neighbors, conns, head, result >>
    /\ UNCHANGED factoryVars

\* The first step of send: the neighbor lookup, then the handshake timeout.
SendLookup(p) ==
    /\ procs[p].kind = "send" /\ procs[p].pc = "scheduled"
    /\ IsNext(p)
    /\ now' = procs[p].wake.time
    /\ LET found == GetNeighbor(neighbors[procs[p].node], procs[p].dest)
       IN  IF found.raised # None
           THEN /\ procs' = [procs EXCEPT ![p].pc = "failed", ![p].wake = NoWake,
                                          ![p].raised = found.raised, ![p].ended = now']
                /\ UNCHANGED nextEid
           ELSE /\ procs' = [procs EXCEPT ![p].pc = "handshaking",
                                          ![p].connection = found.value.connection,
                                          ![p].wake = Timeout(now', HANDSHAKE)]
                /\ nextEid' = nextEid + 1
    /\ UNCHANGED << neighbors, conns, head, result >>
    /\ UNCHANGED factoryVars

\* send gone wrong: no upload timeout, the envelope follows the handshake at once.
SendUploadNoWait(p) ==
    /\ procs[p].kind = "send" /\ procs[p].pc = "handshaking"
    /\ IsNext(p)
    /\ now' = procs[p].wake.time
    /\ procs' = [procs EXCEPT ![p].pc = "uploading", ![p].wake = Timeout(now', 0)]
    /\ nextEid' = nextEid + 1
    /\ UNCHANGED << neighbors, conns, head, result >>
    /\ UNCHANGED factoryVars

\* The handshake timeout fires: send yields the upload timeout.
SendUpload(p) ==
    /\ procs[p].kind = "send" /\ procs[p].pc = "handshaking"
    /\ IsNext(p)
    /\ now' = procs[p].wake.time
    /\ procs' = [procs EXCEPT ![p].pc = "uploading",
                              ![p].wake = Timeout(now', procs[p].rate)]
    /\ nextEid' = nextEid + 1
    /\ UNCHANGED << neighbors, conns, head, result >>
    /\ UNCHANGED factoryVars

\* send gone wrong: the put also marks the message as known to the neighbor.
SendPutMarks(p) ==
    /\ procs[p].kind = "send" /\ procs[p].pc = "uploading"
    /\ IsNext(p)
    /\ now' = procs[p].wake.time
    /\ LET c == procs[p].connection
           envelope == Envelope(procs[p].msg, now',
                                conns[c].destination_node, conns[c].origin_node)
       IN  /\ conns' = [conns EXCEPT ![c] = Put(conns[c], envelope)]
           /\ procs' = [procs EXCEPT ![p].pc = "done", ![p].wake = NoWake,
                                     ![p].envelope = << envelope >>, ![p].ended = now']
    /\ neighbors' = [neighbors EXCEPT ![procs[p].node] =
           [k \in DOMAIN @ |-> [@[k] EXCEPT !.knownTxs = @ \cup {procs[p].msg}]]]
    /\ UNCHANGED << head, result, nextEid >>
    /\ UNCHANGED factoryVars

\* send gone wrong: the envelope is put twice.
SendPutTwice(p) ==
    /\ procs[p].kind = "send" /\ procs[p].pc = "uploading"
    /\ IsNext(p)
    /\ now' = procs[p].wake.time
    /\ LET c == procs[p].connection
           envelope == Envelope(procs[p].msg, now',
                                conns[c].destination_node, conns[c].origin_node)
       IN  /\ conns' = [conns EXCEPT ![c] = Put(Put(conns[c], envelope), envelope)]
           /\ procs' = [procs EXCEPT ![p].pc = "done", ![p].wake = NoWake,
                                     ![p].envelope = << envelope >>, ![p].ended = now']
    /\ UNCHANGED << neighbors, head, result, nextEid >>
    /\ UNCHANGED factoryVars

\* The upload timeout fires: the envelope is built and put on the connection.
SendPut(p) ==
    /\ procs[p].kind = "send" /\ procs[p].pc = "uploading"
    /\ IsNext(p)
    /\ now' = procs[p].wake.time
    /\ LET c == procs[p].connection
           envelope == Envelope(procs[p].msg, now',
                                conns[c].destination_node, conns[c].origin_node)
       IN  /\ conns' = [conns EXCEPT ![c] = Put(conns[c], envelope)]
           /\ procs' = [procs EXCEPT ![p].pc = "done", ![p].wake = NoWake,
                                     ![p].envelope = << envelope >>, ![p].ended = now']
    /\ UNCHANGED << neighbors, head, result, nextEid >>
    /\ UNCHANGED factoryVars

(***************************************************************************)
(* models/node.py: listening                                               *)
(***************************************************************************)
\* self.neighbors.items(): the (address, dict) pairs the for loop goes over.
Items(nbrs) == {<< k, nbrs[k] >> : k \in DOMAIN nbrs}

\* The connections of the dicts the for loop of listening goes over.
ListeningConnections(self) == {item[2].connection : item \in Items(neighbors[self])}

\* The first step of listening. Over an empty neighbor map the for loop has no
\* pass and the generator returns. Otherwise the first pass subscripts the
\* (address, dict) pair with 'connection', which raises TypeError before any
\* connection.get() is reached.
ListeningFirstStep(p) ==
    /\ procs[p].kind = "listening" /\ procs[p].pc = "scheduled"
    /\ IsNext(p)
    /\ now' = procs[p].wake.time
    /\ procs' = IF Items(neighbors[procs[p].node]) = {}
                THEN [procs EXCEPT ![p].pc = "returned", ![p].wake = NoWake,
                                   ![p].ended = now']
                ELSE [procs EXCEPT ![p].pc = "failed", ![p].wake = NoWake,
                                   ![p].raised = "TypeError", ![p].ended = now']
    /\ UNCHANGED << neighbors, conns, head, result, nextEid >>
    /\ UNCHANGED factoryVars

(***************************************************************************)
(* node_factory.py. A dict is the sequence of its (key, value) pairs in    *)
(* insertion order; miners and non_miners map a location to its how_many.  *)
(***************************************************************************)
LocationNames == {"Ohio", "Tokyo"}
Blockchains == {"bitcoin", "ethereum", "dogecoin"}

\* str.lower() on the location names of the model.
Lower(location) ==
    CASE location = "Ohio" -> "ohio"
      [] location = "Tokyo" -> "tokyo"

\* f'{miner_location.lower()}-{node_id}'
NodeAddress(location, node_id) == << Lower(location), "-", node_id >>

\* dict.keys(), in insertion order.
Keys(dict) == [i \in 1 .. Len(dict) |-> dict[i][1]]

\* The dicts create_nodes is given: distinct locations, each with a how_many.
Dicts ==
    {<< >>}
    \cup {<< << l, n >> >> : l \in LocationNames, n \in 0 .. MaxHowMany}
    \cup {d \in {<< << l1, n1 >>, << l2, n2 >> >> :
                     l1 \in LocationNames, l2 \in LocationNames,
                     n1 \in 0 .. MaxHowMany, n2 \in 0 .. MaxHowMany} :
             d[1][1] # d[2][1]}

\* _check_location gone wrong: the locations of non_miners are not looked at.
CheckLocationMinersOnly(miners, non_miners, locations) ==
    LET nodes_location == Keys(miners)
        bad == {i \in 1 .. Len(nodes_location) : nodes_location[i] \notin locations}
    IN  IF bad = {} THEN None ELSE "RuntimeError"

\* _check_location: RuntimeError for a location without measurements.
CheckLocation(miners, non_miners, locations) ==
    LET nodes_location == Keys(miners) \o Keys(non_miners)
        bad == {i \in 1 .. Len(nodes_location) : nodes_location[i] \notin locations}
    IN  IF bad = {} THEN None ELSE "RuntimeError"

\* The two loops over dict.items() and range(how_many): the location of every
\* node to create, in creation order.
RECURSIVE LocationsOf(_)
LocationsOf(dict) ==
    IF dict = << >> THEN << >>
    ELSE [i \in 1 .. dict[1][2] |-> dict[1][1]] \o LocationsOf(Tail(dict))

\* create_*_nodes gone wrong: node_id starts again at 1 for the non-miners.
CreatedNodesRestart(class, miners, non_miners) ==
    LET m == LocationsOf(miners)
        n == LocationsOf(non_miners)
    IN  [i \in 1 .. Len(m) + Len(n) |->
            [class     |-> class,
             location  |-> IF i <= Len(m) THEN m[i] ELSE n[i - Len(m)],
             address   |-> IF i <= Len(m) THEN NodeAddress(m[i], i)
                           ELSE NodeAddress(n[i - Len(m)], i - Len(m)),
             is_mining |-> i <= Len(m)]]

\* create_bitcoin_nodes / create_ethereum_nodes: the nodes constructed, miners
\* first, node_id counting on from the miners to the non-miners.
CreatedNodes(class, miners, non_miners) ==
    LET m == LocationsOf(miners)
        n == LocationsOf(non_miners)
    IN  [i \in 1 .. Len(m) + Len(n) |->
            [class     |-> class,
             location  |-> IF i <= Len(m) THEN m[i] ELSE n[i - Len(m)],
             address   |-> NodeAddress(IF i <= Len(m) THEN m[i] ELSE n[i - Len(m)], i),
             is_mining |-> i <= Len(m)]]

Addresses(nodes_list) == [i \in 1 .. Len(nodes_list) |-> nodes_list[i].address]

NotCalled == [kind |-> "pending", error |-> None, value |-> << >>]
Raised(error) == [kind |-> "raised", error |-> error, value |-> << >>]
Returned(value) == [kind |-> "returned", error |-> None, value |-> value]

\* blockchain_switcher.get(blockchain, lambda: "Invalid blockchain")(miners, non_miners):
\* the class of the nodes to create; without an entry, the default lambda, which
\* takes no argument, is called with two and raises TypeError.
Switcher(blockchain) ==
    CASE blockchain = "bitcoin" -> "BTCNode"
      [] blockchain = "ethereum" -> "ETHNode"
      [] OTHER -> None

\* create_nodes(miners, non_miners)
CreateNodes ==
    /\ outcome = NotCalled
    /\ LET checked == CheckLocation(request.miners, request.non_miners, world.locations)
           class == Switcher(world.blockchain)
           nodes_list == CreatedNodes(class, request.miners, request.non_miners)
       IN  IF checked # None
           THEN /\ outcome' = Raised(checked)
                /\ UNCHANGED << network, wiring >>
           ELSE IF class = None
           THEN /\ outcome' = Raised("TypeError")
                /\ UNCHANGED << network, wiring >>
           ELSE /\ network' = network \o nodes_list
                /\ wiring' = [i \in 1 .. Len(nodes_list) |->
                                 [node |-> nodes_list[i].address,
                                  nodes |-> Addresses(nodes_list)]]
                /\ outcome' = Returned(Addresses(nodes_list))
    /\ UNCHANGED << world, request >>
    /\ UNCHANGED coreVars

(***************************************************************************)
(* Initial state: the nodes constructed, nothing wired, nothing scheduled. *)
(***************************************************************************)
EmptyMap == [x \in {} |-> None]

NothingMarked == [firstBlock |-> << >>, blocks |-> {}, firstTx |-> << >>, txs |-> {}]


CoreInit ==
    /\ neighbors = [n \in Nodes |-> EmptyMap]
    /\ conns = << >>
    /\ head = [n \in Nodes |-> 0]
    /\ result = None
    /\ now = 0
    /\ procs = << >>
    /\ nextEid = 0
    /\ marked = NothingMarked

FactoryIdle ==
    /\ world = None
    /\ request = None
    /\ network = << >>
    /\ wiring = << >>
    /\ outcome = None

Init == CoreInit /\ FactoryIdle

NextMark ==
    \/ \E self \in Nodes, node \in Nodes : AddNeighbors(self, node) /\ UNCHANGED marked
    \/ \E self \in MarkNodes, h \in BlockHashes, k \in Nodes : MarkBlock(self, h, k) /\ UNCHANGED marked
    \/ \E self \in MarkNodes, h \in TxHashes, k \in Nodes : MarkTransaction(self, h, k) /\ UNCHANGED marked
    \/ \E node \in Nodes \ MarkNodes : NewHead(node) /\ UNCHANGED marked

SpecMark == Init /\ [][NextMark]_vars

\* Under Spec a node is wired to the other node only; SpecMark also wires a node
\* to itself.
Next ==
    \/ \E self \in Nodes : \E node \in Nodes \ {self} : AddNeighbors(self, node) /\ UNCHANGED marked
    \/ \E self \in Senders, dest \in Nodes, rate \in UploadRates, msg \in Msgs :
           StartSend(self, dest, rate, msg) /\ UNCHANGED marked
    \/ \E self \in Nodes, rate \in DownloadRates : StartListening(self, rate) /\ UNCHANGED marked
    \/ \E p \in DOMAIN procs : SendLookup(p) /\ UNCHANGED marked
    \/ \E p \in DOMAIN procs : SendUpload(p) /\ UNCHANGED marked
    \/ \E p \in DOMAIN procs : SendPut(p) /\ UNCHANGED marked
    \/ \E p \in DOMAIN procs : ListeningFirstStep(p) /\ UNCHANGED marked

Spec == Init /\ [][Next]_vars

\* A factory over an empty network, about to serve one create_nodes call.
InitFactory ==
    /\ CoreInit
    /\ world \in [blockchain : Blockchains, locations : SUBSET LocationNames]
    /\ request \in [miners : Dicts, non_miners : Dicts]
    /\ network = << >>
    /\ wiring = << >>
    /\ outcome = NotCalled

NextFactory == CreateNodes /\ UNCHANGED marked

SpecFactory == InitFactory /\ [][NextFactory]_vars

(***************************************************************************)
(* The claims about neighbor management, under SpecMark.                   *)
(***************************************************************************)
\* C1: for every node and every neighbor of it, in every state any sequence of
\* add_neighbors, _mark_block and _mark_transaction calls reaches, knownBlocks
\* holds at most MAX_KNOWN_BLOCKS hashes and knownTxs at most MAX_KNOWN_TXS.
C1_KnownSetsBounded ==
    \A n \in Nodes : \A k \in DOMAIN neighbors[n] :
        /\ Cardinality(neighbors[n][k].knownBlocks) <= MAX_KNOWN_BLOCKS
        /\ Cardinality(neighbors[n][k].knownTxs) <= MAX_KNOWN_TXS

\* Both sets of a neighbor are full and the hash they started with was evicted.
C1_Witness ==
    \E n \in Nodes : \E k \in DOMAIN neighbors[n] :
        /\ Cardinality(neighbors[n][k].knownBlocks) = MAX_KNOWN_BLOCKS
        /\ Cardinality(neighbors[n][k].knownTxs) = MAX_KNOWN_TXS
        /\ "" \notin neighbors[n][k].knownBlocks
        /\ "" \notin neighbors[n][k].knownTxs

\* C7: right after add_neighbors(K) on N, first add or re-add, the known-sets of
\* N.neighbors[K] are empty, its connection is a newly created one from N to K,
\* and its head is K's current chain head.
C7_AddNeighborsInstallsEmptySets ==
    [][\A n \in Nodes, k \in Nodes :
          AddNeighbors(n, k) =>
              /\ neighbors'[n][k].knownBlocks = {}
              /\ neighbors'[n][k].knownTxs = {}
              /\ neighbors'[n][k].connection \notin DOMAIN conns
              /\ conns'[neighbors'[n][k].connection] = Connection(n, k)
              /\ neighbors'[n][k].head = head[k]]_vars

\* C8: _mark_block and _mark_transaction for an address that is not in the
\* neighbor map raise RuntimeError and leave every neighbor map as it was.
C8_MarkUnknownNeighborRaises ==
    [][\A n \in Nodes, k \in Nodes :
          (/\ k \notin DOMAIN neighbors[n]
           /\ \/ \E h \in BlockHashes : MarkBlock(n, h, k)
              \/ \E h \in TxHashes : MarkTransaction(n, h, k))
          => (result' = "RuntimeError" /\ neighbors' = neighbors)]_vars

\* A mark for an unknown neighbor has raised on a node that has a marked neighbor.
C8_Witness ==
    /\ result = "RuntimeError"
    /\ \E n \in Nodes : \E k \in DOMAIN neighbors[n] :
          /\ DOMAIN neighbors[n] # Nodes
          /\ neighbors[n][k].knownBlocks # {""}
          /\ neighbors[n][k].knownTxs # {""}

(***************************************************************************)
(* The claims about send and listening, under Spec.                        *)
(***************************************************************************)
Sends == {p \in DOMAIN procs : procs[p].kind = "send"}
Listenings == {p \in DOMAIN procs : procs[p].kind = "listening"}

\* The scheduler has no event left: the simulation run is over.
Quiescent == \A p \in DOMAIN procs : ~Pending(p)

\* C2: a send to an address that is not in the sender's neighbor map ends in
\* RuntimeError at the task's first step: no timeout is registered, the clock
\* reads what it read when the task started, no connection gets an envelope.
C2_SendToUnknownRaises ==
    [][\A p \in DOMAIN procs :
          (SendLookup(p) /\ procs[p].dest \notin DOMAIN neighbors[procs[p].node])
          => /\ procs'[p].pc = "failed"
             /\ procs'[p].raised = "RuntimeError"
             /\ ~Pending(p)'
             /\ nextEid' = nextEid
             /\ now' = procs[p].t0
             /\ conns' = conns]_vars

\* A send has failed at its first step while another task has moved the clock.
C2_Witness ==
    \E p \in Sends :
        /\ procs[p].pc = "failed"
        /\ procs[p].raised = "RuntimeError"
        /\ procs[p].t0 > 0

\* C3: a send of node A to a registered neighbor B started at time t puts on the
\* connection of A to B the envelope (msg, t + 3 + upload_rate, B, A), at time
\* t + 3 + upload_rate, and no queue changes in any other way.
C3_SendDeposit ==
    [][/\ \A c \in DOMAIN conns :
            conns'[c].store # conns[c].store =>
                \E p \in Sends :
                    /\ procs[p].pc # "done" /\ procs'[p].pc = "done"
                    /\ procs[p].connection = c
                    /\ conns[c].origin_node = procs[p].node
                    /\ conns[c].destination_node = procs[p].dest
                    /\ now' = procs[p].t0 + 3 + procs[p].rate
                    /\ conns'[c].store = Append(conns[c].store,
                           [msg |-> procs[p].msg,
                            timestamp |-> procs[p].t0 + 3 + procs[p].rate,
                            destination |-> procs[p].dest,
                            origin |-> procs[p].node])
       /\ \A p \in Sends :
            (procs[p].pc # "done" /\ procs'[p].pc = "done") =>
                conns'[procs[p].connection].store # conns[procs[p].connection].store
       /\ \A p \in Sends :
            (procs[p].pc = "scheduled" /\ procs'[p].pc \notin {"scheduled", "failed"}) =>
                procs'[p].connection = neighbors[procs[p].node][procs[p].dest].connection
      ]_vars

\* The send of "tx1" with upload_rate 5 started at time 0 has put its envelope.
C3_Witness ==
    \E p \in Sends : \E c \in DOMAIN conns :
        /\ procs[p].pc = "done" /\ procs[p].t0 = 0 /\ procs[p].rate = 5
        /\ conns[c].origin_node = "a" /\ conns[c].destination_node = "b"
        /\ conns[c].store = << [msg |-> "tx1", timestamp |-> 8,
                                destination |-> "b", origin |-> "a"] >>

\* A and B are wired to each other.
Wired(a, b) == a \in DOMAIN neighbors[b] /\ b \in DOMAIN neighbors[a]

\* C4: with A and B wired to each other and the listening task of B scheduled,
\* the envelope a send of A puts for B is received by that listening task: once
\* the run is over, the task holds an envelope whose origin is A.
C4_EnvelopeReceived ==
    \A p \in Sends : \A q \in Listenings :
        (/\ Quiescent
         /\ procs[p].pc = "done"
         /\ procs[q].node = procs[p].dest
         /\ procs[q].node # procs[p].node
         /\ Wired(procs[p].node, procs[q].node))
        => (/\ procs[q].envelope # << >>
            /\ procs[q].envelope[1].origin = procs[p].node)

\* C5: the listening task of a connection's destination observes exactly the
\* envelopes put on it, none dropped: once the run is over, no envelope is left
\* in the queue of a registered connection whose destination has a listening task.
C5_NothingDropped ==
    \A n \in Nodes : \A k \in DOMAIN neighbors[n] : \A q \in Listenings :
        (Quiescent /\ procs[q].node = conns[neighbors[n][k].connection].destination_node)
        => conns[neighbors[n][k].connection].store = << >>

C9_ListeningNeverEnds ==
    \A q \in Listenings : procs[q].pc \in {"scheduled", "waiting", "downloading"}

(***************************************************************************)
(* The claims about the node factory, under SpecFactory.                   *)
(***************************************************************************)
RequestedLocations ==
    {request.miners[i][1] : i \in 1 .. Len(request.miners)}
    \cup {request.non_miners[i][1] : i \in 1 .. Len(request.non_miners)}

\* C10: create_nodes with a location of miners or non_miners that is not in the
\* world's locations raises RuntimeError with no node registered and no node
\* connected; with every location known, no such error is raised.
C10_UnknownLocationFailsFast ==
    outcome # NotCalled =>
        IF RequestedLocations \subseteq world.locations
        THEN outcome.error # "RuntimeError"
        ELSE outcome = Raised("RuntimeError") /\ network = << >> /\ wiring = << >>

\* The call failed on a location of non_miners although miners, all of known
\* locations, asked for nodes.
C10_Witness ==
    /\ outcome = Raised("RuntimeError")
    /\ world.blockchain = "bitcoin"
    /\ Len(request.miners) > 0
    /\ \A i \in 1 .. Len(request.miners) :
          request.miners[i][1] \in world.locations /\ request.miners[i][2] > 0
    /\ \E i \in 1 .. Len(request.non_miners) :
          request.non_miners[i][1] \notin world.locations

(***************************************************************************)
(* SpecRelay: marks and send tasks together, as a relay policy would call  *)
(* them. The hash of a message is the hash its transaction gives.          *)
(***************************************************************************)
\* ETHTransaction.hash of the messages of the model.
HashOf(msg) ==
    CASE msg = "tx1" -> "t1"
      [] msg = "tx2" -> "t2"

MsgHashes == {HashOf(msg) : msg \in Msgs}

NextRelay ==
    \/ \E self \in Nodes : \E node \in Nodes \ {self} : AddNeighbors(self, node) /\ UNCHANGED marked
    \/ \E self \in Senders, h \in MsgHashes : \E k \in Nodes \ {self} :
           MarkTransaction(self, h, k) /\ UNCHANGED marked
    \/ \E self \in Senders, rate \in UploadRates, msg \in Msgs : \E dest \in Nodes \ {self} :
           StartSend(self, dest, rate, msg) /\ UNCHANGED marked
    \/ \E p \in DOMAIN procs : SendLookup(p) /\ UNCHANGED marked
    \/ \E p \in DOMAIN procs : SendUpload(p) /\ UNCHANGED marked
    \/ \E p \in DOMAIN procs : SendPut(p) /\ UNCHANGED marked

SpecRelay == Init /\ [][NextRelay]_vars

\* C11: no step of a send task changes a known-set or a head of any neighbor of
\* any node, and the task goes on whatever the known-sets hold: a send to a
\* registered neighbor starts its handshake and its last step puts one envelope,
\* also when the hash of msg is in the known-set of the destination.
C11_SendIgnoresKnownSets ==
    [][\A p \in DOMAIN procs :
          /\ (SendLookup(p) \/ SendUpload(p) \/ SendPut(p))
                => (neighbors' = neighbors /\ head' = head)
          /\ (SendLookup(p) /\ procs[p].dest \in DOMAIN neighbors[procs[p].node])
                => procs'[p].pc = "handshaking"
          /\ SendUpload(p) => procs'[p].pc = "uploading"
          /\ SendPut(p)
                => /\ procs'[p].pc = "done"
                   /\ Len(conns'[procs[p].connection].store)
                        = Len(conns[procs[p].connection].store) + 1]_vars

\* A send has put its envelope on the registered connection and the hash of its
\* message is in the known-set of the destination.
C11_Witness ==
    \E p \in Sends :
        /\ procs[p].pc = "done"
        /\ procs[p].t0 = 0 /\ now > 0
        /\ procs[p].dest \in DOMAIN neighbors[procs[p].node]
        /\ neighbors[procs[p].node][procs[p].dest].connection = procs[p].connection
        /\ neighbors[procs[p].node][procs[p].dest].knownTxs = {"", HashOf(procs[p].msg)}
        /\ Len(conns[procs[p].connection].store) = 1


(***************************************************************************)
(* SpecFill: node a keeps one neighbor, b, and marks for it hashes that    *)
(* are not empty and pairwise distinct.  marked remembers, per kind, the   *)
(* first hash and all the hashes marked since b was last added.            *)
(***************************************************************************)
FillNodes == {"a"}

FillBlockHashes == {"b1", "b2", "b3", "b4"}

FillTxHashes == {"t1", "t2", "t3", "t4", "t5"}

FillAdd(self, node) ==
    /\ AddNeighbors(self, node)
    /\ marked' = NothingMarked

FillBlock(self, h, k) ==
    /\ k \in DOMAIN neighbors[self]
    /\ h \notin marked.blocks
    /\ MarkBlock(self, h, k)
    /\ marked' = [marked EXCEPT
           !.firstBlock = IF marked.blocks = {} THEN << h >> ELSE @,
           !.blocks = @ \cup {h}]

FillTx(self, h, k) ==
    /\ k \in DOMAIN neighbors[self]
    /\ h \notin marked.txs
    /\ MarkTransaction(self, h, k)
    /\ marked' = [marked EXCEPT
           !.firstTx = IF marked.txs = {} THEN << h >> ELSE @,
           !.txs = @ \cup {h}]

NextFill ==
    \/ \E self \in FillNodes : \E node \in Nodes \ {self} : FillAdd(self, node)
    \/ \E self \in FillNodes, h \in FillBlockHashes : \E k \in Nodes \ {self} : FillBlock(self, h, k)
    \/ \E self \in FillNodes, h \in FillTxHashes : \E k \in Nodes \ {self} : FillTx(self, h, k)

SpecFill == Init /\ [][NextFill]_vars

NextListen ==
    \/ \E self \in Senders, node \in Nodes : AddNeighbors(self, node) /\ UNCHANGED marked
    \/ \E self \in Senders, dest \in Nodes, rate \in UploadRates, msg \in Msgs :
           StartSend(self, dest, rate, msg) /\ UNCHANGED marked
    \/ \E self \in Nodes, rate \in DownloadRates : StartListening(self, rate) /\ UNCHANGED marked
    \/ \E p \in DOMAIN procs : SendLookup(p) /\ UNCHANGED marked
    \/ \E p \in DOMAIN procs : SendUpload(p) /\ UNCHANGED marked
    \/ \E p \in DOMAIN procs : SendPut(p) /\ UNCHANGED marked
    \/ \E p \in DOMAIN procs : ListeningFirstStep(p) /\ UNCHANGED marked

SpecListen == Init /\ [][NextListen]_vars

\* C13: the listening task of a node with two or more neighbors serves each of
\* the node's neighbor connections: once the run is over, an envelope put on
\* any of them has left its queue and the task has received an envelope.
C13_EveryConnectionServed ==
    \A q \in Listenings : \A p \in Sends :
        (/\ Quiescent
         /\ Cardinality(DOMAIN neighbors[procs[q].node]) >= 2
         /\ procs[p].pc = "done"
         /\ procs[p].connection \in ListeningConnections(procs[q].node))
        => (/\ conns[procs[p].connection].store = << >>
            /\ procs[q].envelope # << >>)


\* C14: a listening task that found neighbor connections alternates between
\* waiting for an envelope and its download delay: once the run is over, with an
\* envelope put on a connection it listens on, it is back to waiting, and no
\* download delay of it is left pending.
C14_ListeningAlternates ==
    \A q \in Listenings : \A p \in Sends :
        (/\ Quiescent
         /\ procs[q].pc \notin {"scheduled", "returned"}
         /\ procs[p].pc = "done"
         /\ procs[p].connection \in ListeningConnections(procs[q].node))
        => (/\ procs[q].pc = "waiting"
            /\ procs[q].raised = None)


(***************************************************************************)
(* The claims about single mark calls, under SpecMark.                     *)
(***************************************************************************)
\* What a mark of the new hash h may make of the set old, whose bound is limit.
MarkedNew(old, new, h, limit) ==
    /\ h \in new
    /\ IF Cardinality(old) < limit
       THEN /\ new = old \cup {h}
            /\ Cardinality(new) = Cardinality(old) + 1
       ELSE /\ \E x \in old : new = (old \ {x}) \cup {h}
            /\ Cardinality(new) = limit

\* C15: a mark for a known neighbor with a hash that is not in the set adds the
\* hash and removes nothing when the set is below its bound, and replaces
\* exactly one member by the hash when the set is at its bound; at the bound
\* every member is one the call may remove.
C15_MarkOfNewHash ==
    /\ [][\A self \in MarkNodes : \A k \in DOMAIN neighbors[self] :
            /\ \A h \in BlockHashes \ neighbors[self][k].knownBlocks :
                   MarkBlock(self, h, k)
                   => /\ k \in DOMAIN neighbors'[self]
                      /\ MarkedNew(neighbors[self][k].knownBlocks,
                                   neighbors'[self][k].knownBlocks, h, MAX_KNOWN_BLOCKS)
            /\ \A h \in TxHashes \ neighbors[self][k].knownTxs :
                   MarkTransaction(self, h, k)
                   => /\ k \in DOMAIN neighbors'[self]
                      /\ MarkedNew(neighbors[self][k].knownTxs,
                                   neighbors'[self][k].knownTxs, h, MAX_KNOWN_TXS)]_vars
    /\ [](\A self \in MarkNodes : \A k \in DOMAIN neighbors[self] :
            /\ Cardinality(neighbors[self][k].knownBlocks) = MAX_KNOWN_BLOCKS
               => \A h \in BlockHashes \ neighbors[self][k].knownBlocks :
                  \A x \in neighbors[self][k].knownBlocks :
                      ENABLED (/\ MarkBlock(self, h, k)
                               /\ x \notin neighbors'[self][k].knownBlocks)
            /\ Cardinality(neighbors[self][k].knownTxs) = MAX_KNOWN_TXS
               => \A h \in TxHashes \ neighbors[self][k].knownTxs :
                  \A x \in neighbors[self][k].knownTxs :
                      ENABLED (/\ MarkTransaction(self, h, k)
                               /\ x \notin neighbors'[self][k].knownTxs))

\* For b, node a holds a block set at its bound after an eviction (two hashes
\* marked, the seeded one gone) and a transaction set still below its bound.
C15_Witness ==
    /\ "b" \in DOMAIN neighbors["a"]
    /\ neighbors["a"]["b"].knownBlocks = {"b1", "b2"}
    /\ neighbors["a"]["b"].knownTxs = {"", "t1"}
    /\ result = None


(***************************************************************************)
(* SpecFair: the tasks of Spec, all sends carrying the same message, under *)
(* a scheduler that keeps running, as env.run() does: while an event is    *)
(* pending, the earliest one is eventually processed.                      *)
(***************************************************************************)
FairMsgs == {"tx1"}

NextFair ==
    \/ \E self \in Nodes : \E node \in Nodes \ {self} : AddNeighbors(self, node) /\ UNCHANGED marked
    \/ \E self \in Senders, dest \in Nodes, rate \in UploadRates, msg \in FairMsgs :
           StartSend(self, dest, rate, msg) /\ UNCHANGED marked
    \/ \E self \in Nodes, rate \in DownloadRates : StartListening(self, rate) /\ UNCHANGED marked
    \/ \E p \in DOMAIN procs : SendLookup(p) /\ UNCHANGED marked
    \/ \E p \in DOMAIN procs : SendUpload(p) /\ UNCHANGED marked
    \/ \E p \in DOMAIN procs : SendPut(p) /\ UNCHANGED marked
    \/ \E p \in DOMAIN procs : ListeningFirstStep(p) /\ UNCHANGED marked

RunStep ==
    /\ \E p \in DOMAIN procs :
           SendLookup(p) \/ SendUpload(p) \/ SendPut(p) \/ ListeningFirstStep(p)
    /\ UNCHANGED marked

SpecFair == Init /\ [][NextFair]_vars /\ WF_vars(RunStep)

\* The envelopes a step adds to connection c: one per send task that holds c and
\* goes from its upload to its end in the step.
Deposits(c) ==
    {p \in Sends : /\ procs[p].connection = c
                   /\ procs[p].pc = "uploading"
                   /\ procs'[p].pc = "done"}

\* C16: a send task that passed the neighbor lookup goes from its handshake to
\* its upload and from its upload to its end, where it has no event left; it
\* has no other way out and raises nothing; it puts one envelope, when it ends,
\* and no other; and under a fair scheduler it does end, whatever other tasks
\* run.
C16_SendCompletes ==
    /\ [][/\ \A p \in Sends :
               /\ procs[p].pc = "handshaking"
                  => procs'[p].pc \in {"handshaking", "uploading"}
               /\ procs[p].pc = "uploading"
                  => procs'[p].pc \in {"uploading", "done"}
               /\ procs[p].pc = "done"
                  => procs'[p] = procs[p]
               /\ procs[p].pc \in {"handshaking", "uploading"}
                  => (procs[p].raised = None /\ Pending(p))
               /\ procs'[p].pc = "done"
                  => (procs'[p].raised = None /\ procs'[p].wake = NoWake)
          /\ \A c \in DOMAIN conns :
               Len(conns'[c].store) = Len(conns[c].store) + Cardinality(Deposits(c))]_vars
    /\ \A p \in 1 .. MaxProcs :
           (p \in Sends /\ procs[p].pc = "handshaking")
               ~> (p \in Sends /\ procs[p].pc = "done")

\* A send task has ended with its envelope put, and another task that was
\* scheduled while it was under way has run as well.
C16_Witness ==
    \E p \in Sends : \E q \in DOMAIN procs \ {p} :
        /\ procs[p].pc = "done"
        /\ Len(conns[procs[p].connection].store) = 1
        /\ procs[q].t0 > procs[p].t0
        /\ procs[q].t0 < procs[p].ended
        /\ procs[q].pc # "scheduled"


(***************************************************************************)
(* More claims about the node factory, under SpecFactory.                  *)
(***************************************************************************)
\* C17: create_nodes with known locations and a blockchain that is neither
\* bitcoin nor ethereum returns (the string "Invalid blockchain"): it raises no
\* error, and it creates and connects no node.
C17_InvalidBlockchainReturned ==
    (/\ outcome # NotCalled
     /\ RequestedLocations \subseteq world.locations
     /\ world.blockchain \notin {"bitcoin", "ethereum"})
    => (/\ outcome.kind = "returned"
        /\ outcome.error = None
        /\ network = << >>
        /\ wiring = << >>)


\* C18, as stated: a mark with a hash that is in the set leaves the set as it
\* is, also when the set is at its bound.
C18_MarkIdempotent ==
    [][\A self \in MarkNodes : \A k \in DOMAIN neighbors[self] :
          /\ \A h \in BlockHashes \cap neighbors[self][k].knownBlocks :
                 MarkBlock(self, h, k)
                 => neighbors'[self][k].knownBlocks = neighbors[self][k].knownBlocks
          /\ \A h \in TxHashes \cap neighbors[self][k].knownTxs :
                 MarkTransaction(self, h, k)
                 => neighbors'[self][k].knownTxs = neighbors[self][k].knownTxs]_vars

\* What a mark of h, a member of old, may make of the set old, whose bound is
\* limit.
MarkedAgain(old, new, h, limit) ==
    /\ h \in new
    /\ IF Cardinality(old) < limit
       THEN new = old
       ELSE \E x \in old : new = (old \ {x}) \cup {h}

\* C18, amended: a mark with a hash that is in the set leaves the set as it is
\* when the set is below its bound; at the bound one member, any, is removed
\* before the hash is added: the set is as it was or has lost one other member,
\* and the hash is a member of it in both cases.
C18_MarkIdempotentBelowBound ==
    [][\A self \in MarkNodes : \A k \in DOMAIN neighbors[self] :
          /\ \A h \in BlockHashes \cap neighbors[self][k].knownBlocks :
                 \/ MarkedAgain(neighbors[self][k].knownBlocks,
                                neighbors'[self][k].knownBlocks, h, MAX_KNOWN_BLOCKS)
                 \/ ~MarkBlock(self, h, k)
          /\ \A h \in TxHashes \cap neighbors[self][k].knownTxs :
                 \/ MarkedAgain(neighbors[self][k].knownTxs,
                                neighbors'[self][k].knownTxs, h, MAX_KNOWN_TXS)
                 \/ ~MarkTransaction(self, h, k)]_vars

\* A block set one below its bound without the hash it was seeded with: only a
\* mark of a member of a set at its bound leaves such a set.
C18_Witness ==
    \E self \in MarkNodes : \E k \in DOMAIN neighbors[self] :
        /\ Cardinality(neighbors[self][k].knownBlocks) = MAX_KNOWN_BLOCKS - 1
        /\ "" \notin neighbors[self][k].knownBlocks
        /\ result = None


(***************************************************************************)
(* SpecFrame: the calls of SpecMark with fewer hashes, to look at what a   *)
(* mark leaves alone: other neighbors, other nodes, connections and heads. *)
(***************************************************************************)
FrameBlockHashes == {"b1", "b2"}

FrameTxHashes == {"t1"}

NextFrame ==
    \/ \E self \in Nodes, node \in Nodes : AddNeighbors(self, node) /\ UNCHANGED marked
    \/ \E self \in MarkNodes, h \in FrameBlockHashes, k \in Nodes :
           MarkBlock(self, h, k) /\ UNCHANGED marked
    \/ \E self \in MarkNodes, h \in FrameTxHashes, k \in Nodes :
           MarkTransaction(self, h, k) /\ UNCHANGED marked
    \/ \E node \in Nodes \ MarkNodes : NewHead(node) /\ UNCHANGED marked

SpecFrame == Init /\ [][NextFrame]_vars

\* What a mark on self for its neighbor k leaves as it is: every variable but
\* neighbors, the neighbor map of every other node, the keys of the map of
\* self and every other entry of it.
MarkFrame(self, k) ==
    /\ UNCHANGED << conns, head, now, procs, nextEid >>
    /\ UNCHANGED factoryVars
    /\ \A n \in Nodes \ {self} : neighbors'[n] = neighbors[n]
    /\ DOMAIN neighbors'[self] = DOMAIN neighbors[self]
    /\ \A j \in DOMAIN neighbors[self] \ {k} : neighbors'[self][j] = neighbors[self][j]

\* C19: _mark_block(h, K) on N changes nothing but N.neighbors[K].knownBlocks
\* and _mark_transaction(h, K) nothing but N.neighbors[K].knownTxs: the other
\* known-set, the connection, head, location and address of K, the keys of N's
\* neighbor map, N's other neighbors, the other nodes, the connections and the
\* chain heads are as before.
C19_MarkFrame ==
    [][\A self \in MarkNodes : \A k \in DOMAIN neighbors[self] :
          /\ \A h \in FrameBlockHashes :
                 MarkBlock(self, h, k)
                 => /\ MarkFrame(self, k)
                    /\ neighbors'[self][k] =
                           [neighbors[self][k] EXCEPT
                               !.knownBlocks = neighbors'[self][k].knownBlocks]
          /\ \A h \in FrameTxHashes :
                 MarkTransaction(self, h, k)
                 => /\ MarkFrame(self, k)
                    /\ neighbors'[self][k] =
                           [neighbors[self][k] EXCEPT
                               !.knownTxs = neighbors'[self][k].knownTxs]]_vars

\* Node a has two neighbors: b, marked with a block and with no transaction,
\* and a itself, not marked at all; the chain head of b has moved on since b
\* was added.
C19_Witness ==
    /\ DOMAIN neighbors["a"] = {"a", "b"}
    /\ neighbors["a"]["b"].knownBlocks = {"", "b1"}
    /\ neighbors["a"]["b"].knownTxs = {""}
    /\ neighbors["a"]["a"].knownBlocks = {""}
    /\ neighbors["a"]["a"].knownTxs = {""}
    /\ head["b"] # neighbors["a"]["b"].head


\* sum of how_many over the items of a dict.
RECURSIVE HowMany(_)
HowMany(dict) ==
    IF dict = << >> THEN 0 ELSE dict[1][2] + HowMany(Tail(dict))

\* C20: a call of create_nodes that returns (create_bitcoin_nodes or
\* create_ethereum_nodes was run) returns as many nodes as miners and
\* non_miners ask for, the miners first; node i of the list has the address
\* <lowercased location>-i, so the ids are 1..n in creation order and the
\* addresses are pairwise distinct; each location gets as many miners and as
\* many non-miners as were asked for it.
C20_CreatedNodesNumbered ==
    outcome.kind = "returned" =>
        /\ Len(outcome.value) = HowMany(request.miners) + HowMany(request.non_miners)
        /\ Len(network) = Len(outcome.value)
        /\ \A i \in 1 .. Len(network) :
              /\ network[i].address = outcome.value[i]
              /\ network[i].is_mining <=> i <= HowMany(request.miners)
              /\ network[i].address = << Lower(network[i].location), "-", i >>
        /\ \A j \in 1 .. Len(request.miners) :
              Cardinality({i \in 1 .. Len(network) :
                              /\ network[i].is_mining
                              /\ network[i].location = request.miners[j][1]})
                  = request.miners[j][2]
        /\ \A j \in 1 .. Len(request.non_miners) :
              Cardinality({i \in 1 .. Len(network) :
                              /\ ~network[i].is_mining
                              /\ network[i].location = request.non_miners[j][1]})
                  = request.non_miners[j][2]
        /\ \A i \in 1 .. Len(outcome.value) : \A j \in 1 .. Len(outcome.value) :
              outcome.value[i] = outcome.value[j] => i = j

\* Miners and non-miners were asked for in the same location, two of each.
C20_Witness ==
    /\ outcome.kind = "returned"
    /\ Len(outcome.value) = 4
    /\ \E l \in LocationNames :
          /\ request.miners = << << l, 2 >> >>
          /\ request.non_miners = << << l, 2 >> >>

====
